---------------------------- MODULE Spec2Model ----------------------------
(***************************************************************************)
(* devcontainer.py: one invocation of the `devcontainer` command after     *)
(* another, all sharing the container engine's image store.                *)
(*                                                                         *)
(* Strings are sequences of one-character strings, so that str.replace,    *)
(* str.find, str.endswith, str.split and re.sub are computed character by  *)
(* character as Python computes them.                                      *)
(***************************************************************************)
EXTENDS Integers, Sequences, FiniteSets, TLC

(***************************************************************************)
(* Bounds of the model.                                                    *)
(***************************************************************************)
\* termination signals delivered to one invocation
MaxSignals == 2
\* invocations run one after another against the same image store
MaxInvocations == 2
\* segments (literal text or variable references) of a substitute_env input
MaxSegs == 2

(***************************************************************************)
(* Python string primitives.                                               *)
(***************************************************************************)
\* s[a:b] with 1-based inclusive bounds
Slice(s, a, b) == [k \in 1..(b - a + 1) |-> s[a + k - 1]]

\* s.startswith(p)
StartsWith(s, p) == Len(s) >= Len(p) /\ Slice(s, 1, Len(p)) = p

\* s.endswith(p)
EndsWith(s, p) == Len(s) >= Len(p) /\ Slice(s, Len(s) - Len(p) + 1, Len(s)) = p

\* s.find(p) >= 0
Contains(s, p) == \E k \in 1..(Len(s) - Len(p) + 1) : Slice(s, k, k + Len(p) - 1) = p

\* s.replace(p, r): leftmost, non-overlapping occurrences of the non-empty p
RECURSIVE Replace(_, _, _)
Replace(s, p, r) ==
  IF Len(s) < Len(p) THEN s
  ELSE IF StartsWith(s, p) THEN r \o Replace(Slice(s, Len(p) + 1, Len(s)), p, r)
  ELSE <<Head(s)>> \o Replace(Tail(s), p, r)

\* index of the first occurrence of character c in s at or after position k, 0 if none
RECURSIVE IndexFrom(_, _, _)
IndexFrom(s, c, k) ==
  IF k > Len(s) THEN 0
  ELSE IF s[k] = c THEN k
  ELSE IndexFrom(s, c, k + 1)

\* re.sub(r"\{[^}]*\}", "", s): a match starts at the leftmost "{" that has a
\* "}" after it and ends at the first such "}"; the scan resumes after it
RECURSIVE StripBraces(_)
StripBraces(s) ==
  LET i == IndexFrom(s, "{", 1)
      j == IF i = 0 THEN 0 ELSE IndexFrom(s, "}", i + 1)
  IN  IF i = 0 \/ j = 0 THEN s
      ELSE Slice(s, 1, i - 1) \o StripBraces(Slice(s, j + 1, Len(s)))

LocalEnvPrefix == <<"$", "{", "l", "o", "c", "a", "l", "E", "n", "v", ":">>

\* the loop of substitute_env over dict(os.environ).items(), in dict order;
\* environ is a sequence of <<key, value>> pairs
RECURSIVE ReplaceDefined(_, _, _)
ReplaceDefined(val, environ, k) ==
  IF k > Len(environ) THEN val
  ELSE LET ref == <<"{">> \o environ[k][1] \o <<"}">>
           nxt == IF Contains(val, ref) THEN Replace(val, ref, environ[k][2]) ELSE val
       IN  ReplaceDefined(nxt, environ, k + 1)

substitute_env(val, environ) ==
  StripBraces(ReplaceDefined(Replace(val, LocalEnvPrefix, <<"{">>), environ, 1))

\* the string ":latest"
LatestSuffix == <<":", "l", "a", "t", "e", "s", "t">>

\* tag.split(":")[0]
SplitColonFirst(tag) ==
  LET i == IndexFrom(tag, ":", 1)
  IN  IF i = 0 THEN tag ELSE Slice(tag, 1, i - 1)

strip_latest(tag) == IF ~EndsWith(tag, LatestSuffix) THEN tag ELSE SplitColonFirst(tag)


(***************************************************************************)
(* Inputs of an invocation: the configuration document, the files on disk, *)
(* the host environment and the image store the engine starts with.        *)
(***************************************************************************)
\* Python's None and a present value: a sequence of length 0 or 1
None == <<>>
Some(x) == <<x>>

\* a dockerFile / image value of the configuration document
Dockerfile == <<"D", "f">>
Image == <<"i", "m", "g">>

\* runArgs lists
MemCpus ==
  << <<"-", "-", "m", "e", "m", "o", "r", "y">>, <<"2", "g">>,
     <<"-", "-", "c", "p", "u", "s">>, <<"1">> >>
MemCpusSpaced ==
  << <<"-", "-", "m", "e", "m", "o", "r", "y">>, <<"2", " ", "g">>,
     <<"-", "-", "c", "p", "u", "s">>, <<"1", " ", "0">> >>
SpaceFirst == << <<"a", " ", "b">>, <<"-", "x">> >>
RefArgs == << <<"{", "U", "}">>, <<"-", "e">>, <<"{", "A", "}">> >>
RunArgsInputs == {MemCpus, MemCpusSpaced, SpaceFirst, RefArgs}

\* build.args mappings, as sequences of <<key, value>> pairs
BuildArgsInputs == {<< <<"V", "1">> >>, << <<"V", "2">> >>}

\* the parsed devcontainer.json documents: build.args is given with a
\* dockerFile, an image without a build file
ConfigInputs ==
  {d \in [dockerFile : {None, Some(<<>>), Some(Dockerfile)}, image : {None, Some(Image)},
          build_args : {<<>>} \cup BuildArgsInputs, runArgs : RunArgsInputs] :
     /\ (d.build_args # <<>>) = (d.dockerFile = Some(Dockerfile))
     /\ (d.image # None) => (d.dockerFile # Some(Dockerfile))}

\* contents of the build file on disk
FileInputs == {<<1>>, <<2>>}

\* os.environ, as sequences of <<key, value>> pairs in dict order
EnvA == << <<"A">>, <<"v">> >>
LifeEnvInputs == {<<EnvA>>}

Hex == <<"0", "1", "2", "3", "4", "5", "6", "7", "8", "9", "a", "b", "c", "d", "e", "f">>

RECURSIVE SumBytes(_)
SumBytes(b) == IF b = <<>> THEN 0 ELSE Head(b) + SumBytes(Tail(b))

\* hashlib.md5(bytes).hexdigest(): a two-digit digest standing for the 32-digit
\* one; like md5 on real inputs it is injective on FileInputs
md5_hexdigest(b) ==
  <<Hex[((7 * SumBytes(b) + 3 * Len(b)) % 16) + 1], Hex[((SumBytes(b) + 5) % 16) + 1]>>

\* image references other tools left in the store before the first invocation
ExternalRefs ==
  {md5_hexdigest(<<1>>) \o <<":", "5", "/", "a">> \o LatestSuffix,
   md5_hexdigest(<<2>>) \o <<":", "v", "1">>}
StoreInputs == {{}, {[ref |-> r, args |-> None] : r \in ExternalRefs}}

\* the three signals main() installs a handler for
TermSignals == {"SIGINT", "SIGTERM", "SIGQUIT"}

\* exit codes of the shell inside the container
ShellExitCodes == {0, 1}
\* exit code of `docker run` when the container was killed (128 + SIGKILL)
KilledExitCode == 128 + 9
\* exit code of `docker run` when the engine cannot create the container
RunFailedExitCode == 128 - 3

VARIABLES
  inv,              \* number of the current invocation
  pid,              \* os.getpid() of the current invocation
  pc,               \* position of main()
  cfg,              \* the parsed configuration document, None before it is loaded
  environ,          \* os.environ
  fileBytes,        \* bytes read from the build file, None before they are read
  container_name,   \* the global container_name
  RUNARGS,          \* run_args after coalescing and substitution
  TAG,              \* the Build Identity, None before it is computed
  listing,          \* stdout lines of `docker images`, as a set
  existing_images,  \* the lines after strip_latest
  spawned,          \* list, build and run subprocesses spawned so far
  kills,            \* names the `docker container kill` subprocesses were given
  pending,          \* kill commands the engine has not yet acted on
  child,            \* the run subprocess
  container,        \* the container the engine created for the session
  exitStatus,       \* exit status of the invocation, None while it runs
  error,            \* the exception that ended main(), "none" if none
  store,            \* the engine's image store
  builds,           \* history: successful builds, with file and arguments
  signals,          \* number of termination signals delivered to this invocation
  sigInWindow,      \* history: a signal arrived after the name was assigned and
                    \* before the child exited
  sigWhileRunning,  \* history: a signal arrived while the child was running
  build_rc,         \* exit status of the build subprocess, None if it has not ended
  substIn,          \* input of substitute_env under SubstSpec: segments
  substOut          \* its result, None before the call

vars ==
  <<inv, pid, pc, cfg, environ, fileBytes, container_name, RUNARGS, TAG, listing,
    existing_images, spawned, kills, pending, child, container, exitStatus, error,
    store, builds, signals, sigInWindow, sigWhileRunning, build_rc, substIn, substOut>>

substVars == <<substIn, substOut>>
histVars == <<sigInWindow, sigWhileRunning>>

NoChild == [state |-> "none", code |-> None, cause |-> "none"]
NoContainer == [state |-> "none", name |-> <<>>, image |-> None]

\* os.getpid(): a different process for every invocation
getpid(n) == 4000 + n

\* f"devcontainer-{pid}"
SessionName(p) == <<"devcontainer-", p>>

Terminated == {"done", "failed", "killed"}

\* the state a fresh process starts in
Fresh(n) ==
  /\ inv = n
  /\ pid = getpid(n)
  /\ pc = "start"
  /\ cfg = None
  /\ fileBytes = None
  /\ container_name = <<>>
  /\ RUNARGS = <<>>
  /\ TAG = None
  /\ listing = {}
  /\ existing_images = {}
  /\ spawned = {}
  /\ kills = <<>>
  /\ pending = <<>>
  /\ child = NoChild
  /\ container = NoContainer
  /\ exitStatus = None
  /\ error = "none"
  /\ signals = 0
  /\ sigInWindow = FALSE
  /\ sigWhileRunning = FALSE
  /\ build_rc = None

Init ==
  /\ Fresh(1)
  /\ environ \in LifeEnvInputs
  /\ store \in StoreInputs
  /\ builds = {}
  /\ substIn = <<>>
  /\ substOut = None


(***************************************************************************)
(* main(): configuration loading and resolution.                           *)
(***************************************************************************)
\* a spawned subprocess
Proc(kind, name, runargs, target, args) ==
  [kind |-> kind, name |-> name, runargs |-> runargs, target |-> target, args |-> args]

\* raise Exception(...): the uncaught exception ends the process with status 1
Fail(msg) ==
  /\ pc' = "failed"
  /\ error' = msg
  /\ exitStatus' = Some(1)

\* signal.signal(SIGINT/SIGTERM/SIGQUIT, lambda: stop())
InstallHandlers ==
  /\ pc = "start"
  /\ pc' = "checkdir"
  /\ UNCHANGED <<inv, pid, cfg, environ, fileBytes, container_name, RUNARGS, TAG,
                 listing, existing_images, spawned, kills, pending, child, container,
                 exitStatus, error, store, builds, signals, histVars, build_rc, substVars>>

\* if not os.path.isdir('.devcontainer'): raise
CheckDir ==
  /\ pc = "checkdir"
  /\ \E isdir \in BOOLEAN :
       IF isdir THEN pc' = "checkjson" /\ UNCHANGED <<error, exitStatus>>
       ELSE Fail("No .devcontainer found")
  /\ UNCHANGED <<inv, pid, cfg, environ, fileBytes, container_name, RUNARGS, TAG,
                 listing, existing_images, spawned, kills, pending, child, container,
                 store, builds, signals, histVars, build_rc, substVars>>

\* if not os.path.exists('.devcontainer/devcontainer.json'): raise
CheckJson ==
  /\ pc = "checkjson"
  /\ \E exists \in BOOLEAN :
       IF exists THEN pc' = "load" /\ UNCHANGED <<error, exitStatus>>
       ELSE Fail("No .devcontainer/devcontainer.json found")
  /\ UNCHANGED <<inv, pid, cfg, environ, fileBytes, container_name, RUNARGS, TAG,
                 listing, existing_images, spawned, kills, pending, child, container,
                 store, builds, signals, histVars, build_rc, substVars>>

\* variant: an entry is taken for a value when it is no option
HasNoDash(arg) == arg = <<>> \/ Head(arg) # "-"

\* run_args[i].find(" ") >= 0
HasSpace(arg) == Contains(arg, <<" ">>)

\* the index run_args[i-1] denotes: Python's -1 is the last element
PrevIndex(i, n) == IF i = 1 THEN n ELSE i - 1

\* for i in range(len(run_args)): the two assignments, one after the other
RECURSIVE Coalesce(_, _)
Coalesce(run_args, i) ==
  IF i > Len(run_args) THEN run_args
  ELSE IF HasSpace(run_args[i])
       THEN LET p == PrevIndex(i, Len(run_args))
                joined == [run_args EXCEPT ![p] = run_args[p] \o <<"=">> \o run_args[i]]
            IN  Coalesce([joined EXCEPT ![i] = <<>>], i + 1)
       ELSE Coalesce(run_args, i + 1)

\* run_args after both loops
ResolveRunArgs(run_args, env) ==
  LET c == Coalesce(run_args, 1)
  IN  [k \in 1..Len(c) |-> substitute_env(c[k], env)]

\* jstyleson.loads(...) up to container_name = f"devcontainer-{pid}"
LoadConfig ==
  /\ pc = "load"
  /\ \E parses \in BOOLEAN, d \in ConfigInputs :
       IF parses
       THEN /\ cfg' = Some(d)
            /\ RUNARGS' = ResolveRunArgs(d.runArgs, environ)
            /\ container_name' = SessionName(pid)
            /\ pc' = "branch"
            /\ UNCHANGED <<error, exitStatus>>
       ELSE /\ Fail("devcontainer.json does not parse")
            /\ UNCHANGED <<cfg, RUNARGS, container_name>>
  /\ UNCHANGED <<inv, pid, environ, fileBytes, TAG, listing, existing_images, spawned,
                 kills, pending, child, container, store, builds, signals, histVars,
                 build_rc, substVars>>

\* Python truth of an optional string: neither None nor ""
Truthy(opt) == opt # None /\ opt[1] # <<>>

\* variant: the build arguments are hashed with the file
BuildIdentityWithArgs(bytes) ==
  md5_hexdigest(bytes \o [k \in 1..Len(cfg[1].build_args) |->
                           IF cfg[1].build_args[k][2] = "1" THEN 1 ELSE 2])

\* the Build Identity of the build file's bytes
BuildIdentity(bytes) == md5_hexdigest(bytes)

\* if DOCKERFILE: TAG = hashlib.md5(open(...).read()).hexdigest()
ReadDockerfile ==
  /\ pc = "branch"
  /\ Truthy(cfg[1].dockerFile)
  /\ \E readable \in BOOLEAN, bytes \in FileInputs :
       IF readable
       THEN /\ fileBytes' = Some(bytes)
            /\ TAG' = Some(BuildIdentity(bytes))
            /\ pc' = "list"
            /\ UNCHANGED <<error, exitStatus>>
       ELSE /\ Fail("build file cannot be read")
            /\ UNCHANGED <<fileBytes, TAG>>
  /\ UNCHANGED <<inv, pid, cfg, environ, container_name, RUNARGS, listing,
                 existing_images, spawned, kills, pending, child, container, store,
                 builds, signals, histVars, build_rc, substVars>>

\* elif DOCKERIMAGE: DOCKERIMAGE is bound only when DOCKERFILE is None
UseImage ==
  /\ pc = "branch"
  /\ cfg[1].dockerFile = None
  /\ Truthy(cfg[1].image)
  /\ pc' = "compose"
  /\ UNCHANGED <<inv, pid, cfg, environ, fileBytes, container_name, RUNARGS, TAG,
                 listing, existing_images, spawned, kills, pending, child, container,
                 exitStatus, error, store, builds, signals, histVars, build_rc, substVars>>

\* variant: the images are listed before the target is resolved
NoTargetAfterList ==
  /\ pc = "branch"
  /\ ~Truthy(cfg[1].dockerFile)
  /\ cfg[1].dockerFile = None => ~Truthy(cfg[1].image)
  /\ spawned' = spawned \cup {Proc("list", <<>>, <<>>, <<>>, <<>>)}
  /\ Fail(IF cfg[1].dockerFile = None THEN "No Docker image or file found."
          ELSE "UnboundLocalError")
  /\ UNCHANGED <<inv, pid, cfg, environ, fileBytes, container_name, RUNARGS, TAG,
                 listing, existing_images, kills, pending, child, container,
                 store, builds, signals, histVars, build_rc, substVars>>

\* else: raise Exception('No Docker image or file found.'); with dockerFile ""
\* the name DOCKERIMAGE is unbound and the elif raises UnboundLocalError
NoTarget ==
  /\ pc = "branch"
  /\ ~Truthy(cfg[1].dockerFile)
  /\ IF cfg[1].dockerFile = None
     THEN ~Truthy(cfg[1].image) /\ Fail("No Docker image or file found.")
     ELSE Fail("UnboundLocalError")
  /\ UNCHANGED <<inv, pid, cfg, environ, fileBytes, container_name, RUNARGS, TAG,
                 listing, existing_images, spawned, kills, pending, child, container,
                 store, builds, signals, histVars, build_rc, substVars>>


(***************************************************************************)
(* main(): image list, build, run and wait.                                *)
(***************************************************************************)
\* ARGS: one '--build-arg KEY="VALUE"' fragment per build.args item
BuildArgFragments(build_args) ==
  [k \in 1..Len(build_args) |->
     <<"--build-arg ", build_args[k][1], "=\"", build_args[k][2], "\"">>]

\* subprocess.check_output("docker images ..."): the subprocess is spawned
SpawnList ==
  /\ pc = "list"
  /\ spawned' = spawned \cup {Proc("list", <<>>, <<>>, <<>>, <<>>)}
  /\ pc' = "listing"
  /\ UNCHANGED <<inv, pid, cfg, environ, fileBytes, container_name, RUNARGS, TAG,
                 listing, existing_images, kills, pending, child, container,
                 exitStatus, error, store, builds, signals, histVars, build_rc, substVars>>

\* check_output returns the lines or raises CalledProcessError;
\* existing_images = [strip_latest(image) for image in existing_images]
ListReturn ==
  /\ pc = "listing"
  /\ \E ok \in BOOLEAN :
       IF ok
       THEN /\ listing' = {r.ref : r \in store}
            /\ existing_images' = {strip_latest(r.ref) : r \in store}
            /\ pc' = "decide"
            /\ UNCHANGED <<error, exitStatus>>
       ELSE /\ Fail("docker images failed")
            /\ UNCHANGED <<listing, existing_images>>
  /\ UNCHANGED <<inv, pid, cfg, environ, fileBytes, container_name, RUNARGS, TAG,
                 spawned, kills, pending, child, container, store, builds, signals,
                 histVars, build_rc, substVars>>

\* if TAG not in existing_images
MustBuild == TAG[1] \notin existing_images

\* the build subprocess is spawned, or the existing image is used
Decide ==
  /\ pc = "decide"
  /\ IF MustBuild
     THEN /\ spawned' = spawned \cup
               {Proc("build", <<>>, <<>>, TAG[1], BuildArgFragments(cfg[1].build_args))}
          /\ pc' = "building"
     ELSE /\ pc' = "compose"
          /\ UNCHANGED spawned
  /\ UNCHANGED <<inv, pid, cfg, environ, fileBytes, container_name, RUNARGS, TAG,
                 listing, existing_images, kills, pending, child, container,
                 exitStatus, error, store, builds, signals, histVars, build_rc, substVars>>

\* variant: the build's exit status is not looked at
BuildNeverAborts(rc) == FALSE

\* check_output raises CalledProcessError when `docker build` exits non-zero
BuildAborts(rc) == rc # 0

\* `docker build -t TAG` ends: on success the store holds TAG:latest
BuildReturn ==
  /\ pc = "building"
  /\ \E rc \in {0, 1} :
       /\ build_rc' = Some(rc)
       /\ IF rc = 0
          THEN LET img == [ref |-> TAG[1] \o LatestSuffix,
                           args |-> Some(cfg[1].build_args)]
               IN  /\ store' = {r \in store : r.ref # img.ref} \cup {img}
                   /\ builds' = builds \cup
                        {[file |-> fileBytes[1], args |-> cfg[1].build_args]}
          ELSE UNCHANGED <<store, builds>>
       /\ IF BuildAborts(rc)
          THEN Fail("docker build failed")
          ELSE pc' = "compose" /\ UNCHANGED <<error, exitStatus>>
  /\ UNCHANGED <<inv, pid, cfg, environ, fileBytes, container_name, RUNARGS, TAG,
                 listing, existing_images, spawned, kills, pending, child, container,
                 signals, histVars, substVars>>

\* cmd = [arg for arg in [...] if arg]: the fragments of the run command that
\* depend on the session, without the empty strings
RunCommand ==
  Proc("run", container_name, SelectSeq(RUNARGS, LAMBDA a : a # <<>>),
       IF Truthy(cfg[1].dockerFile) THEN TAG[1] ELSE cfg[1].image[1], <<>>)

\* process = await asyncio.create_subprocess_exec(...): raises when the
\* engine's binary is absent
SpawnRun ==
  /\ pc = "compose"
  /\ \E found \in BOOLEAN :
       IF found
       THEN /\ spawned' = spawned \cup {RunCommand}
            /\ child' = [state |-> "running", code |-> None, cause |-> "none"]
            /\ pc' = "waiting"
            /\ UNCHANGED <<error, exitStatus>>
       ELSE /\ Fail("docker not found")
            /\ UNCHANGED <<spawned, child>>
  /\ UNCHANGED <<inv, pid, cfg, environ, fileBytes, container_name, RUNARGS, TAG,
                 listing, existing_images, kills, pending, container, store, builds,
                 signals, histVars, build_rc, substVars>>

\* what the invocation exits with after main() returns: process.wait()'s
\* value is dropped, asyncio.run(main()) returns None
ReturnStatus(returncode) == 0

\* await process.wait() returns; main() and devcontainer() return
WaitReturn ==
  /\ pc = "waiting"
  /\ child.state = "exited"
  /\ pc' = "done"
  /\ exitStatus' = Some(ReturnStatus(child.code[1]))
  /\ UNCHANGED <<inv, pid, cfg, environ, fileBytes, container_name, RUNARGS, TAG,
                 listing, existing_images, spawned, kills, pending, child, container,
                 error, store, builds, signals, histVars, build_rc, substVars>>

(***************************************************************************)
(* Signals.                                                                *)
(***************************************************************************)
\* variant: the handler terminates the run subprocess itself
stopKillsChild ==
  /\ child' = IF child.state = "running"
              THEN [state |-> "exited", code |-> Some(0 - 15), cause |-> "supervisor"]
              ELSE child
  /\ UNCHANGED <<kills, pending, pc, exitStatus>>

\* stop(): subprocess.Popen(['docker', 'container', 'kill', container_name])
stop ==
  /\ kills' = Append(kills, container_name)
  /\ pending' = Append(pending, container_name)
  /\ UNCHANGED <<child, pc, exitStatus>>

\* a termination signal arrives while the handlers are installed; the handler
\* runs between two steps of main(), also while main() blocks in a subprocess
Signal ==
  /\ pc \notin {"start"} \cup Terminated
  /\ signals < MaxSignals
  /\ \E sig \in TermSignals : stop
  /\ signals' = signals + 1
  /\ sigInWindow' = (sigInWindow \/ (container_name # <<>> /\ child.state # "exited"))
  /\ sigWhileRunning' = (sigWhileRunning \/ child.state = "running")
  /\ UNCHANGED <<inv, pid, cfg, environ, fileBytes, container_name, RUNARGS, TAG,
                 listing, existing_images, spawned, container, error, store, builds,
                 build_rc, substVars>>

\* signal numbers
Signum(sig) == CASE sig = "SIGINT" -> 2 [] sig = "SIGQUIT" -> 3 [] sig = "SIGTERM" -> 15

\* a termination signal arrives before the handlers are installed: the default
\* disposition ends the process
EarlySignal ==
  /\ pc = "start"
  /\ signals < MaxSignals
  /\ \E sig \in TermSignals : exitStatus' = Some(128 + Signum(sig))
  /\ pc' = "killed"
  /\ signals' = signals + 1
  /\ UNCHANGED <<inv, pid, cfg, environ, fileBytes, container_name, RUNARGS, TAG,
                 listing, existing_images, spawned, kills, pending, child, container,
                 error, store, builds, histVars, build_rc, substVars>>

(***************************************************************************)
(* The container engine and the user.                                      *)
(***************************************************************************)
\* the image `docker run` resolves its target to, as a set of at most one
ResolveImage(target) ==
  IF Truthy(cfg[1].dockerFile)
  THEN {r \in store : r.ref = target \o LatestSuffix}
  ELSE {[ref |-> target, args |-> None]}

\* the engine creates the named container, or `docker run` fails
CreateContainer ==
  /\ child.state = "running"
  /\ container.state = "none"
  /\ \E cmd \in {c \in spawned : c.kind = "run"} :
       \/ \E img \in ResolveImage(cmd.target) :
            /\ container' = [state |-> "running", name |-> cmd.name, image |-> Some(img)]
            /\ UNCHANGED child
       \/ /\ Truthy(cfg[1].dockerFile) => ResolveImage(cmd.target) = {}
          /\ child' = [state |-> "exited", code |-> Some(RunFailedExitCode),
                       cause |-> "run-failed"]
          /\ UNCHANGED container
  /\ UNCHANGED <<inv, pid, pc, cfg, environ, fileBytes, container_name, RUNARGS, TAG,
                 listing, existing_images, spawned, kills, pending, exitStatus, error,
                 store, builds, signals, histVars, build_rc, substVars>>

\* the user leaves the shell: the container and `docker run` end with its code
UserExit ==
  /\ container.state = "running"
  /\ \E code \in ShellExitCodes :
       child' = [state |-> "exited", code |-> Some(code), cause |-> "shell-exit"]
  /\ container' = [container EXCEPT !.state = "gone"]
  /\ UNCHANGED <<inv, pid, pc, cfg, environ, fileBytes, container_name, RUNARGS, TAG,
                 listing, existing_images, spawned, kills, pending, exitStatus, error,
                 store, builds, signals, histVars, build_rc, substVars>>

\* the engine acts on one `docker container kill NAME`: it kills the running
\* container of that name, and fails when there is none
EngineKill ==
  /\ pending # <<>>
  /\ pending' = Tail(pending)
  /\ IF container.state = "running" /\ container.name = Head(pending)
     THEN /\ container' = [container EXCEPT !.state = "gone"]
          /\ child' = [state |-> "exited", code |-> Some(KilledExitCode),
                       cause |-> "engine-kill"]
     ELSE UNCHANGED <<container, child>>
  /\ UNCHANGED <<inv, pid, pc, cfg, environ, fileBytes, container_name, RUNARGS, TAG,
                 listing, existing_images, spawned, kills, exitStatus, error, store,
                 builds, signals, histVars, build_rc, substVars>>

\* the command is invoked again, in a new process, against the same store
NextInvocation ==
  /\ pc \in Terminated
  /\ inv < MaxInvocations
  /\ inv' = inv + 1
  /\ pid' = getpid(inv + 1)
  /\ pc' = "start"
  /\ cfg' = None
  /\ fileBytes' = None
  /\ container_name' = <<>>
  /\ RUNARGS' = <<>>
  /\ TAG' = None
  /\ listing' = {}
  /\ existing_images' = {}
  /\ spawned' = {}
  /\ kills' = <<>>
  /\ pending' = <<>>
  /\ child' = NoChild
  /\ container' = NoContainer
  /\ exitStatus' = None
  /\ error' = "none"
  /\ signals' = 0
  /\ sigInWindow' = FALSE
  /\ sigWhileRunning' = FALSE
  /\ build_rc' = None
  /\ UNCHANGED <<environ, store, builds, substVars>>

Supervisor ==
  \/ InstallHandlers
  \/ CheckDir
  \/ CheckJson
  \/ LoadConfig
  \/ ReadDockerfile
  \/ UseImage
  \/ NoTarget
  \/ SpawnList
  \/ ListReturn
  \/ Decide
  \/ BuildReturn
  \/ SpawnRun
  \/ WaitReturn

Engine ==
  \/ CreateContainer
  \/ EngineKill

Next ==
  \/ Supervisor
  \/ Engine
  \/ Signal
  \/ EarlySignal
  \/ UserExit
  \/ NextInvocation

Spec == Init /\ [][Next]_vars

\* main() runs on, the subprocesses it blocks in end, and the engine acts on
\* what it was sent; signals, the user and further invocations may never come
FairSpec == Spec /\ WF_vars(Supervisor) /\ WF_vars(Engine)


(***************************************************************************)
(* substitute_env as a function of its argument and the host environment.  *)
(***************************************************************************)
\* a segment of an input: literal text, or a reference to a variable
Lit(text) == [kind |-> "lit", text |-> text]
Ref(kind, name) == [kind |-> kind, text |-> name]

\* references in the ${localEnv:NAME} and in the {NAME} form, to the
\* variables A and B and to U, which no environment defines
SegmentInputs ==
  {Lit(<<"x">>)} \cup
  {Ref(k, n) : k \in {"localEnv", "bare"}, n \in {<<"A">>, <<"B">>, <<"U">>}}

\* the text of a segment
RenderSegment(seg) ==
  CASE seg.kind = "lit" -> seg.text
    [] seg.kind = "localEnv" -> LocalEnvPrefix \o seg.text \o <<"}">>
    [] seg.kind = "bare" -> <<"{">> \o seg.text \o <<"}">>

RECURSIVE Render(_)
Render(segs) == IF segs = <<>> THEN <<>> ELSE RenderSegment(Head(segs)) \o Render(Tail(segs))

RECURSIVE SegmentLists(_)
SegmentLists(n) ==
  IF n = 0 THEN {<<>>}
  ELSE SegmentLists(n - 1) \cup
       {Append(l, seg) : l \in {m \in SegmentLists(n - 1) : Len(m) = n - 1},
                         seg \in SegmentInputs}

\* host environments: plain values, a value that holds braces, a value that
\* names another variable (before and after it in dict order), a lone brace
SubstEnvInputs ==
  {<< <<<<"A">>, <<"v">>>>, <<<<"B">>, <<"w">>>> >>,
   << <<<<"A">>, <<"{", "}">>>>, <<<<"B">>, <<"w">>>> >>,
   << <<<<"A">>, <<"{", "B", "}">>>>, <<<<"B">>, <<"w">>>> >>,
   << <<<<"B">>, <<"w">>>>, <<<<"A">>, <<"{", "B", "}">>>> >>,
   << <<<<"A">>, <<"{">>>>, <<<<"B">>, <<"w">>>> >>}

SubstInit ==
  /\ Fresh(1)
  /\ environ \in SubstEnvInputs
  /\ store = {}
  /\ builds = {}
  /\ substIn \in SegmentLists(MaxSegs)
  /\ substOut = None

\* substitute_env(val) is called
Substitute ==
  /\ substOut = None
  /\ substOut' = Some(substitute_env(Render(substIn), environ))
  /\ UNCHANGED <<inv, pid, pc, cfg, environ, fileBytes, container_name, RUNARGS, TAG,
                 listing, existing_images, spawned, kills, pending, child, container,
                 exitStatus, error, store, builds, signals, histVars, build_rc, substIn>>

SubstNext == Substitute

SubstSpec == SubstInit /\ [][SubstNext]_vars


(***************************************************************************)
(* Properties.                                                             *)
(***************************************************************************)
RunProcs == {c \in spawned : c.kind = "run"}
BuildProcs == {c \in spawned : c.kind = "build"}
BuildMode == cfg # None /\ Truthy(cfg[1].dockerFile)

\* C1: a termination signal received while the run subprocess is running makes
\* the supervisor issue one engine kill addressed to devcontainer-<pid>, leaves
\* the child untouched and the supervisor waiting; the wait ends only once the
\* child has exited, and never because the supervisor ended it
C1_SignalKillsContainerByName ==
  [][/\ (signals' = signals + 1 /\ child.state = "running") =>
          /\ kills' = Append(kills, SessionName(pid))
          /\ pending' = Append(pending, SessionName(pid))
          /\ child' = child
          /\ pc = "waiting" /\ pc' = "waiting"
     /\ (pc = "waiting" /\ pc' # "waiting") =>
          /\ child.state = "exited"
          /\ child.cause \in {"shell-exit", "engine-kill", "run-failed"}]_vars

\* C1 witness: a signal arrived while the child ran, the engine killed the
\* container and the wait returned
C1_Witness ==
  /\ sigWhileRunning
  /\ pc = "done"
  /\ child.cause = "engine-kill"
  /\ SessionName(pid) \in {kills[k] : k \in 1..Len(kills)}

\* C2: once the session has ended, the exit status of the invocation is the
\* exit code of the run subprocess
C2_ExitStatusMirrorsChild == pc = "done" => exitStatus = child.code

\* C3: a termination signal that arrives after the session name is assigned
\* and before the child has exited leads to the end of the invocation
C3_SignalInWindowTerminates == sigInWindow ~> (pc \in Terminated)

\* the run-time extra arguments ["--memory=2g", "--cpus=1"]
MemCpusJoined ==
  << <<"-", "-", "m", "e", "m", "o", "r", "y", "=", "2", "g">>,
     <<"-", "-", "c", "p", "u", "s", "=", "1">> >>
\* the run-time extra arguments ["--memory=2 g", "--cpus=1 0"]
MemCpusSpacedJoined ==
  << <<"-", "-", "m", "e", "m", "o", "r", "y", "=", "2", " ", "g">>,
     <<"-", "-", "c", "p", "u", "s", "=", "1", " ", "0">> >>

\* C4, as stated: runArgs ["--memory", "2g", "--cpus", "1"] reach the run
\* command as ["--memory=2g", "--cpus=1"]
C4_MemCpusCoalesced ==
  \A c \in RunProcs : cfg[1].runArgs = MemCpus => c.runargs = MemCpusJoined

\* C4, amended: runArgs ["--memory", "2g", "--cpus", "1"] reach the run command
\* unchanged, as no entry holds a space; ["--memory", "2 g", "--cpus", "1 0"]
\* reach it as ["--memory=2 g", "--cpus=1 0"], with no empty slot
C4_MemCpusUnchanged ==
  \A c \in RunProcs :
    /\ cfg[1].runArgs = MemCpus => c.runargs = MemCpus
    /\ cfg[1].runArgs = MemCpusSpaced => c.runargs = MemCpusSpacedJoined

\* C4 witness: a run command was composed from ["--memory", "2g", "--cpus", "1"]
C4_Witness == RunProcs # {} /\ cfg[1].runArgs = MemCpus /\ child.state = "running"

\* C5: when the first runArgs entry holds a space the invocation fails, no run
\* arguments are produced and no session is started
C5_FirstSpaceRejected ==
  (cfg # None /\ cfg[1].runArgs # <<>> /\ HasSpace(cfg[1].runArgs[1])) =>
     /\ pc = "failed"
     /\ RunProcs = {}
     /\ RUNARGS = <<>>

\* the value of the variable a reference names, "" when it is undefined
Lookup(env, name) ==
  IF \E k \in 1..Len(env) : env[k][1] = name
  THEN env[CHOOSE k \in 1..Len(env) : env[k][1] = name][2]
  ELSE <<>>

\* the input with every reference replaced by the exact value of its variable
RECURSIVE Expected(_, _)
Expected(segs, env) ==
  IF segs = <<>> THEN <<>>
  ELSE (IF Head(segs).kind = "lit" THEN Head(segs).text ELSE Lookup(env, Head(segs).text))
       \o Expected(Tail(segs), env)

\* C6: substitute_env replaces every reference to a defined variable by the
\* variable's exact value and leaves nothing of a reference to an undefined one
C6_ExactValueNoRemnant ==
  substOut # None =>
     /\ substOut[1] = Expected(substIn, environ)
     /\ \A k \in 1..Len(substIn) :
          (substIn[k].kind # "lit" /\ Lookup(environ, substIn[k].text) = <<>>)
             => ~Contains(substOut[1], <<"{">> \o substIn[k].text \o <<"}">>)

\* a reference without its ":latest" suffix, any other reference as it is
DropLatestSuffix(ref) ==
  IF EndsWith(ref, LatestSuffix) THEN Slice(ref, 1, Len(ref) - Len(LatestSuffix)) ELSE ref

\* C7: in build-from-file mode the build is invoked exactly when no listed
\* reference equals the Build Identity once only ":latest" is dropped, and the
\* run targets the Build Identity
C7_BuildIffNoLatestMatch ==
  (BuildMode /\ pc \in {"building", "compose", "waiting", "done"}) =>
     /\ (BuildProcs # {}) = (\A r \in listing : DropLatestSuffix(r) # TAG[1])
     /\ \A c \in RunProcs : c.target = TAG[1]

PreflightErrors ==
  {"No .devcontainer found", "No .devcontainer/devcontainer.json found",
   "No Docker image or file found."}

\* C8, as stated: after a pre-flight failure no subprocess of any kind, kill
\* included, has been spawned
C8_PreflightSpawnsNothing ==
  error \in PreflightErrors => (spawned = {} /\ kills = <<>>)

\* C8, amended: after a pre-flight failure no list, build or run subprocess
\* has been spawned; the subprocesses spawned are one engine kill for every
\* termination signal delivered since the handlers were installed, addressed
\* to the empty name or to the session name, and to the empty name when the
\* configuration was missing
C8_PreflightSpawnsOnlySignalKills ==
  error \in PreflightErrors =>
     /\ pc = "failed"
     /\ spawned = {}
     /\ child.state = "none"
     /\ Len(kills) = signals
     /\ \A k \in 1..Len(kills) :
          /\ kills[k] \in {<<>>, SessionName(pid)}
          /\ cfg = None => kills[k] = <<>>

\* C8 witness: the configuration directory is absent and a signal came first
C8_Witness == error = "No .devcontainer found" /\ kills = << <<>> >>

BuildErrors ==
  {"build file cannot be read", "docker images failed", "docker build failed"}

C10_BuildArgsDoNotAffectReuse ==
  \A b \in builds :
    (BuildMode /\ fileBytes = Some(b.file) /\ cfg[1].build_args # b.args) =>
       /\ TAG[1] = md5_hexdigest(b.file)
       /\ BuildProcs = {}
       /\ pc \notin {"building"}
       /\ \A c \in RunProcs : c.target = md5_hexdigest(b.file)
       /\ container.state = "running" => container.image[1].args = Some(b.args)

\* C10 witness: a container runs the image an earlier invocation built from
\* the same file with other build arguments
C10_Witness ==
  /\ BuildMode
  /\ inv > 1
  /\ container.state = "running"
  /\ \E b \in builds :
       /\ fileBytes = Some(b.file)
       /\ cfg[1].build_args # b.args
       /\ container.image[1].args = Some(b.args)

=============================================================================
